---- MODULE Spec2Model ----
(***************************************************************************)
(* State-machine model of the SCCL training code (src/training.py) and of  *)
(* the mode dispatch of the models (src/models/Transformers.py).           *)
(*                                                                         *)
(*   Spec         the train() loops of the four trainers                   *)
(*   SpecBatches  construct_batches as a function of its input             *)
(*   SpecRepair   find_empty_clusters on a one-dimensional dataset         *)
(*   SpecForward  forward() of the three models                            *)
(*                                                                         *)
(* Sequences are 1-based: point p of the source is point p+1 here, cluster *)
(* c of the source is cluster c+1 here.  Loop indices of train() keep the  *)
(* source's values (i = 0 .. max_iter).                                    *)
(***************************************************************************)
EXTENDS Integers, Sequences, FiniteSets, TLC

(* ------------------------------- bounds ------------------------------- *)
\* largest args.max_iter explored
MaxIter == 3
\* largest patience explored
MaxPatience == 2
\* largest len(train_loader) explored (batches per pass)
MaxLoaderLen == 2
\* largest number of must-link pairs explored
MaxPairs == 2
\* largest number of vectors given to construct_batches
MaxVectors == 4
\* largest number of calls made on one model
MaxCalls == 3
\* number of cluster centers K given to find_empty_clusters; the datasets
\* explored have K - 1 or K points, at the positions 0, 1, 2, ... of a line,
\* and the centers lie on the positions 0 .. K - 1, the clusters numbered
\* in the order of their centers' positions
NumClusters == 4

\* largest args.print_freq explored (0 stands for every print_freq <= 0)
MaxPrintFreq == 2
\* largest args.batch_size explored
MaxBatchSize == 3
\* PredictionSnapshots explored: hard assignments of two points to two
\* clusters; <<1,2>> and <<2,1>> are the same partition under renamed labels
Snapshots == {<<1, 1>>, <<1, 2>>, <<2, 1>>}

(* -------------------------- program constants -------------------------- *)
\* the period of the cluster-repair trigger, i % 50 == 0
RepairPeriod == 50

Trainers == {"SCCLvTrainer", "MatrixDECTrainer", "MatrixSCCLTrainer", "DeepSCCLTrainer"}

\* Python's None, and a local name that is not bound yet
None == << >>
Unbound == << >>

VARIABLES
    \* --- train(): configuration, fixed at construction
    trainer, max_iter, print_freq, patience, loader_len, num_pairs, batch_size,
    \* --- the trainer's self.include_contrastive_loss and args.objective
    trainer_contrastive, objective,
    \* --- train(): control
    pc, raised, i,
    \* --- train_step: the local loss ("unbound", "float" or "tensor")
    loss,
    \* --- train(): the main loader
    train_loader_iter, batch, new_batch,
    \* --- train(): the supervised-pair stream
    supervised_cl_batch_loader, supervised_cl_batch, sup_taken,
    \* --- train(): early stopping
    all_pred, prev_labels, patience_counter,
    \* --- train(): history (not program state): train steps made, iterations
    \* that called find_empty_clusters, the snapshot of the last checkpoint,
    \* the number of consecutive checkpoints with that same snapshot, and the
    \* last comparison <<prev_labels, cur_labels, patience_counter before>>
    steps, repaired_at, last_snap, same_run, compared,
    \* --- train(): more history: the phases of the current iteration in the
    \* order they ran, the iterations whose fetch restarted the loader
    \* (new_batch = True), the points the last find_empty_clusters call
    \* measured, and how that call ended
    phases, restarted_at, repair_read, repair_outcome,
    \* --- train(): more history: the iterations that ran the in-loop
    \* evaluation, the most recent evaluate_embedding call of the trainers
    \* that keep its result (iter = -1 is the call before the loop), and
    \* what train() returned
    evaluated_at, last_eval, train_result,
    \* --- construct_batches: the input tensor and what the call produced
    vectors, batches,
    \* --- forward(): the model, the mode of the last call and its outcome
    model_class, include_contrastive_loss, linear_transformation, task_type,
    forward_out, calls,
    \* --- find_empty_clusters: self.dataset, the model's cluster_centers
    \* parameter, and the locals of the call (cursor is the local i)
    dataset, param_centers, cluster_centers, labels, n_samples_in_cluster,
    points_by_min_cluster_distance, cursor, empty_cluster_idxs,
    \* --- find_empty_clusters: history (not program state): the clusters
    \* found empty at line 267, the last reseeding step, the diagnostic of
    \* line 289, the value of the cluster_centers parameter when the call
    \* was made
    initial_empty, reseed, warned, centers_before

config == <<trainer, max_iter, print_freq, patience, loader_len, num_pairs,
            batch_size, trainer_contrastive, objective>>

\* the locals and the history of train()
train_locals == <<i, train_loader_iter, batch, new_batch,
                  supervised_cl_batch_loader, supervised_cl_batch, sup_taken,
                  all_pred, prev_labels, patience_counter,
                  steps, repaired_at, last_snap, same_run, compared,
                  loss, phases, restarted_at, repair_read, repair_outcome,
                  evaluated_at, last_eval, train_result>>

train_vars == <<config, pc, raised, train_locals>>

batches_vars == <<vectors, batches>>

forward_vars == <<model_class, include_contrastive_loss, linear_transformation,
                  task_type, forward_out, calls>>

repair_vars == <<dataset, param_centers, cluster_centers, labels,
                 n_samples_in_cluster, points_by_min_cluster_distance, cursor,
                 empty_cluster_idxs, initial_empty, reseed, warned,
                 centers_before>>

not_train_vars == <<batches_vars, forward_vars, repair_vars>>

vars == <<train_vars, batches_vars, forward_vars, repair_vars>>

(* ======================= construct_batches ============================= *)

Min(a, b) == IF a < b THEN a ELSE b

\* all permutations of 1..n, as sequences
Perms(n) == {p \in [1..n -> 1..n] : \A a, b \in 1..n : p[a] = p[b] => a = b}

IdPerm(n) == [k \in 1..n |-> k]

\* tensor[random_indices]
shuffle_tensor(tensor, random_indices) ==
    [k \in 1..Len(tensor) |-> tensor[random_indices[k]]]

\* Python's s[:n]: at most the first n elements
Prefix(s, n) == SubSeq(s, 1, Min(n, Len(s)))

\* length of the suffix that line 547 appends: the slice holds at most
\* len(shuffled_vectors) elements
SuffixLen(m, b) == IF m % b # 0 THEN Min(b - (m % b), m) ELSE 0

\* construct_batches(vectors, batch_size), with the two random permutations
\* made explicit: perm1 shuffles the vectors, perm2 the padding suffix.
\* ok = FALSE is the AssertionError of line 549.
construct_batches(vecs, b, perm1, perm2) ==
    LET shuffled == shuffle_tensor(vecs, perm1)
        m        == Len(shuffled)
        suffix   == IF m % b # 0
                    THEN shuffle_tensor(Prefix(shuffled, b - (m % b)), perm2)
                    ELSE << >>
        padded   == shuffled \o suffix
    IN  IF Len(padded) % b # 0
        THEN [ok |-> FALSE, batches |-> << >>]
        ELSE [ok |-> TRUE,
              batches |-> [k \in 1..(Len(padded) \div b) |->
                              SubSeq(padded, (k - 1) * b + 1, k * b)]]

\* the batches of a torch DataLoader over m items (drop_last is False):
\* ceil(m / b) batches, the last one partial
DataLoaderLen(m, b) == (m + b - 1) \div b

(* ============================ train() ================================== *)

HasSupervised(t) == t \in {"MatrixSCCLTrainer", "DeepSCCLTrainer"}

\* variant: every trainer, SCCLvTrainer included, runs the patience check
HasEarlyStoppingAll(t) == TRUE

\* SCCLvTrainer.train keeps no prev_labels and no patience_counter
HasEarlyStopping(t) == t # "SCCLvTrainer"

\* variant: the loop as np.arange(max_iter)
LastIterExclusive == max_iter - 1

\* the last value of np.arange(max_iter + 1)
LastIter == max_iter

\* variant: only the multiples of print_freq are checkpoints
IsCheckpointNoLast(it) ==
    print_freq > 0 /\ it % print_freq = 0

\* (print_freq > 0) and ((i % print_freq == 0) or (i == max_iter))
IsCheckpoint(it) ==
    print_freq > 0 /\ (it % print_freq = 0 \/ it = max_iter)

\* the new_batch argument of train_step:
\* i > 0 and (i % 50 == 0 or i == max_iter - 2)
RepairSelected(it) ==
    it > 0 /\ (it % RepairPeriod = 0 \/ it = max_iter - 2)

\* sklearn.metrics.adjusted_rand_score(cur, prev) == 1.0: the two labelings
\* induce the same partition of the points (the score does not depend on
\* the names of the labels)
Agreement(cur, prev) ==
    \A p, q \in DOMAIN cur : (cur[p] = cur[q]) <=> (prev[p] = prev[q])

\* variant: a disagreement leaves the counter as it is
PatienceUpdateNoReset(counter, agrees) == IF agrees THEN counter + 1 ELSE counter

\* patience_counter += 1  /  patience_counter = 0
PatienceUpdate(counter, agrees) == IF agrees THEN counter + 1 ELSE 0

\* variant: the break is taken one agreement later
PatienceExhaustedLate(counter) == counter = patience + 1

\* if patience_counter == self.patience: break
PatienceExhausted(counter) == counter = patience

\* variant: the iterator is restarted one batch early, so the last batch of
\* a pass is never delivered
NextBatchDropsLast(it, len) ==
    IF it # Unbound /\ it[2] + 1 < len
    THEN [ok |-> TRUE, iter |-> <<it[1], it[2] + 1>>,
          batch |-> <<it[1], it[2] + 1>>, restarted |-> FALSE]
    ELSE LET pass == IF it = Unbound THEN 1 ELSE it[1] + 1
         IN  IF len = 0
             THEN [ok |-> FALSE, iter |-> <<pass, 0>>,
                   batch |-> Unbound, restarted |-> TRUE]
             ELSE [ok |-> TRUE, iter |-> <<pass, 1>>,
                   batch |-> <<pass, 1>>, restarted |-> TRUE]

\* try: batch = next(train_loader_iter) / except: restart and take the first
\* batch.  An iterator is <<pass, consumed>>; a batch is <<pass, index>>.
\* ok = FALSE: next() on the fresh iterator raised StopIteration inside the
\* except block (the loader has no batch).
NextBatch(it, len) ==
    IF it # Unbound /\ it[2] < len
    THEN [ok |-> TRUE, iter |-> <<it[1], it[2] + 1>>,
          batch |-> <<it[1], it[2] + 1>>, restarted |-> FALSE]
    ELSE LET pass == IF it = Unbound THEN 1 ELSE it[1] + 1
         IN  IF len = 0
             THEN [ok |-> FALSE, iter |-> <<pass, 0>>,
                   batch |-> Unbound, restarted |-> TRUE]
             ELSE [ok |-> TRUE, iter |-> <<pass, 1>>,
                   batch |-> <<pass, 1>>, restarted |-> TRUE]

\* the position after the body of iteration it
AfterIter(it) == IF it = LastIter THEN "MAX_ITER_REACHED" ELSE "fetch"
NextI(it) == IF it = LastIter THEN it ELSE it + 1

\* where iteration it goes after train_step returned
AfterStep(it) == IF IsCheckpoint(it) THEN "eval" ELSE AfterIter(it)

NoLoader == [kind |-> "none", build |-> 0, next |-> 0, len |-> 0]

\* variant: prev_labels is bound at the first checkpoint and never again
RetainedLabelsFirstOnly(prev, cur, halted) == IF prev = None THEN cur ELSE prev

\* prev_labels after a checkpoint that computed cur: prev_labels = all_pred
\* at the first checkpoint, prev_labels = cur_labels at a later one, and
\* the old value when the break is taken before that assignment
RetainedLabels(prev, cur, halted) == IF halted THEN prev ELSE cur

\* train() has not returned
NotReturned == [returned |-> FALSE, value |-> None]

\* variant: train() returns the labels kept for the patience comparison
ReturnValuePrevLabels(pred, prev) == prev

\* return all_pred
ReturnValue(pred, prev) == pred

\* the result of train() once the loop is left at position p (by the break
\* or after the last iteration)
ResultAt(p, pred, prev) ==
    IF p \in {"CONVERGED", "MAX_ITER_REACHED"}
    THEN [returned |-> TRUE, value |-> ReturnValue(pred, prev)]
    ELSE NotReturned

\* the variables of construct_batches, of forward() and of train() while
\* another operation is explored
BatchesIdle == vectors = << >> /\ batches = None

ForwardIdle ==
    /\ model_class = "none"
    /\ include_contrastive_loss = FALSE
    /\ linear_transformation = FALSE
    /\ task_type = "none"
    /\ forward_out = None
    /\ calls = 0

RepairIdle ==
    /\ dataset = << >>
    /\ param_centers = << >>
    /\ cluster_centers = None
    /\ labels = << >>
    /\ n_samples_in_cluster = << >>
    /\ points_by_min_cluster_distance = << >>
    /\ cursor = 0
    /\ empty_cluster_idxs = << >>
    /\ initial_empty = {}
    /\ reseed = None
    /\ warned = FALSE
    /\ centers_before = None

TrainIdle ==
    /\ trainer = "none"
    /\ max_iter = 0
    /\ print_freq = 0
    /\ patience = 0
    /\ loader_len = 0
    /\ num_pairs = 0
    /\ raised = "none"
    /\ i = 0
    /\ train_loader_iter = Unbound
    /\ batch = Unbound
    /\ new_batch = FALSE
    /\ supervised_cl_batch_loader = NoLoader
    /\ supervised_cl_batch = Unbound
    /\ sup_taken = FALSE
    /\ all_pred = None
    /\ prev_labels = None
    /\ patience_counter = 0
    /\ steps = 0
    /\ repaired_at = {}
    /\ last_snap = None
    /\ same_run = 0
    /\ compared = None
    /\ trainer_contrastive = FALSE
    /\ objective = "none"
    /\ loss = "unbound"
    /\ phases = << >>
    /\ restarted_at = {}
    /\ repair_read = None
    /\ repair_outcome = "none"
    /\ evaluated_at = {}
    /\ last_eval = None
    /\ train_result = NotReturned

\* the model class each trainer is built on (the constructors of
\* MatrixDECTrainer, MatrixSCCLTrainer and DeepSCCLTrainer assert it)
ModelOf(t) ==
    CASE t = "SCCLvTrainer" -> "SCCLBert"
      [] t \in {"MatrixDECTrainer", "MatrixSCCLTrainer"} -> "SCCLMatrix"
      [] t = "DeepSCCLTrainer" -> "SCCLBertTransE"

Objectives == {"SCCL", "contrastive"}

TrainInit ==
    /\ BatchesIdle /\ RepairIdle
    /\ trainer \in Trainers
    /\ model_class = ModelOf(trainer)
    /\ IF model_class = "SCCLBert"
       THEN include_contrastive_loss = TRUE /\ trainer_contrastive = TRUE
       ELSE include_contrastive_loss \in BOOLEAN /\ trainer_contrastive \in BOOLEAN
    /\ IF model_class = "SCCLMatrix"
       THEN linear_transformation \in BOOLEAN
       ELSE linear_transformation = FALSE
    /\ task_type = "none"
    /\ forward_out = None
    /\ calls = 0
    /\ objective \in Objectives
    /\ loss = "unbound"
    /\ phases = << >>
    /\ restarted_at = {}
    /\ repair_read = None
    /\ repair_outcome = "none"
    /\ evaluated_at = {}
    /\ last_eval = None
    /\ train_result = NotReturned
    /\ max_iter \in 1..MaxIter
    /\ print_freq \in (-1)..MaxPrintFreq
    /\ patience \in 1..MaxPatience
    /\ loader_len \in 0..MaxLoaderLen
    /\ IF HasSupervised(trainer)
       THEN num_pairs \in 1..MaxPairs /\ batch_size \in 1..MaxBatchSize
       ELSE num_pairs = 0 /\ batch_size = 1
    /\ pc = "ready"
    /\ raised = "none"
    /\ i = 0
    /\ train_loader_iter = Unbound
    /\ batch = Unbound
    /\ new_batch = FALSE
    /\ supervised_cl_batch_loader = NoLoader
    /\ supervised_cl_batch = Unbound
    /\ sup_taken = FALSE
    /\ all_pred = None
    /\ prev_labels = None
    /\ patience_counter = 0
    /\ steps = 0
    /\ repaired_at = {}
    /\ last_snap = None
    /\ same_run = 0
    /\ compared = None

Init == TrainInit

(* ===================== construct_batches, called ======================= *)

BatchesInit ==
    /\ TrainIdle /\ ForwardIdle /\ RepairIdle
    /\ pc = "call"
    /\ batch_size \in 1..MaxBatchSize
    /\ \E m \in 0..MaxVectors : vectors = IdPerm(m)
    /\ batches = None

\* one call of construct_batches(vectors, batch_size); the two calls of
\* shuffle_tensor draw their permutations
ConstructBatches ==
    /\ pc = "call"
    /\ \E perm1 \in Perms(Len(vectors)) :
       \E perm2 \in Perms(SuffixLen(Len(vectors), batch_size)) :
          LET r == construct_batches(vectors, batch_size, perm1, perm2)
          IN  /\ batches' = r.batches
              /\ pc' = IF r.ok THEN "returned" ELSE "raised"
              /\ raised' = IF r.ok THEN raised ELSE "AssertionError"
    /\ UNCHANGED <<config, train_locals, vectors, forward_vars, repair_vars>>

NextBatches == ConstructBatches

SpecBatches == BatchesInit /\ [][NextBatches]_vars

(* ============================ forward() ================================ *)

ModelClasses == {"SCCLBert", "SCCLMatrix", "SCCLBertTransE"}

\* the task_type arguments explored: the three modes of the source and two
\* strings none of the models knows
TaskTypes == {"evaluate", "virtual", "explicit", "contrast", "Evaluate"}

Returned(n) == [op |-> "forward", raised |-> "none", embeddings |-> n]
Raised(e) == [op |-> "forward", raised |-> e, embeddings |-> 0]

\* variant: a mode the model does not know falls through and returns None
ForwardResultSilent(cls, tt) ==
    CASE cls = "SCCLBert" ->
           IF tt = "evaluate" THEN Returned(1)
           ELSE IF tt = "virtual" THEN Returned(2)
           ELSE IF tt = "explicit" THEN Returned(3)
           ELSE Returned(0)
      [] cls = "SCCLMatrix" ->
           IF tt = "evaluate" THEN Returned(1)
           ELSE IF tt = "virtual" THEN Returned(2)
           ELSE Returned(0)
      [] OTHER ->
           IF tt = "evaluate" THEN Returned(1)
           ELSE IF tt = "explicit" THEN Returned(2)
           ELSE Returned(0)

\* the if / elif / else chains of the three forward methods: the number of
\* embedding tensors returned, or the exception raised
ForwardResult(cls, tt) ==
    CASE cls = "SCCLBert" ->
           IF tt = "evaluate" THEN Returned(1)
           ELSE IF tt = "virtual" THEN Returned(2)
           ELSE IF tt = "explicit" THEN Returned(3)
           ELSE Raised("Exception")
      [] cls = "SCCLMatrix" ->
           IF tt = "evaluate" THEN Returned(1)
           ELSE IF tt = "virtual" THEN Returned(2)
           ELSE Raised("NotImplementedError")
      [] OTHER ->
           IF tt = "evaluate" THEN Returned(1)
           ELSE IF tt = "explicit" THEN Returned(2)
           ELSE Raised("NotImplementedError")

\* contrast_logits(embd1, embd2): SCCLBert always has a contrast head; the
\* other two assert self.include_contrastive_loss
ContrastLogitsResult(cls, head) ==
    IF cls = "SCCLBert" \/ head
    THEN [op |-> "contrast_logits", raised |-> "none", embeddings |-> 2]
    ELSE [op |-> "contrast_logits", raised |-> "AssertionError", embeddings |-> 0]

\* the models after construction: SCCLBert takes neither flag
ForwardInit ==
    /\ TrainIdle /\ BatchesIdle /\ RepairIdle
    /\ pc = "model"
    /\ batch_size = 1
    /\ model_class \in ModelClasses
    /\ IF model_class = "SCCLBert"
       THEN include_contrastive_loss = TRUE
       ELSE include_contrastive_loss \in BOOLEAN
    /\ IF model_class = "SCCLMatrix"
       THEN linear_transformation \in BOOLEAN
       ELSE linear_transformation = FALSE
    /\ task_type = "none"
    /\ forward_out = None
    /\ calls = 0

\* one call model(..., task_type = tt)
Forward ==
    /\ pc = "model"
    /\ calls < MaxCalls
    /\ \E tt \in TaskTypes :
          /\ task_type' = tt
          /\ forward_out' = ForwardResult(model_class, tt)
    /\ calls' = calls + 1
    /\ UNCHANGED <<train_vars, batches_vars, repair_vars, model_class,
                   include_contrastive_loss, linear_transformation>>

\* one call model.contrast_logits(embd1, embd2)
ContrastLogits ==
    /\ pc = "model"
    /\ calls < MaxCalls
    /\ task_type' = "none"
    /\ forward_out' = ContrastLogitsResult(model_class, include_contrastive_loss)
    /\ calls' = calls + 1
    /\ UNCHANGED <<train_vars, batches_vars, repair_vars, model_class,
                   include_contrastive_loss, linear_transformation>>

NextForward ==
    \/ Forward
    \/ ContrastLogits

SpecForward == ForwardInit /\ [][NextForward]_vars

(* ===================== find_empty_clusters, called ===================== *)

\* ---------------------------------------------------------------------
\* find_empty_clusters.  Points and centers lie on a line, so the distance
\* matrix is the absolute difference.  Clusters are numbered 1 .. K here
\* (0 .. K-1 in the source), points 1 .. N (0 .. N-1 in the source).

Abs(x) == IF x < 0 THEN -x ELSE x

\* scipy.spatial.distance_matrix(self.dataset, cluster_centers)[p][k]
dist_matrix(data, centers, p, k) == Abs(data[p] - centers[k])

\* min(cluster_distances)
MinDistance(data, centers, p) ==
    CHOOSE d \in {dist_matrix(data, centers, p, k) : k \in DOMAIN centers} :
        \A k \in DOMAIN centers : d <= dist_matrix(data, centers, p, k)

\* np.argmin(cluster_distances): the first index of the minimum
ArgMin(data, centers, p) ==
    CHOOSE k \in DOMAIN centers :
        /\ dist_matrix(data, centers, p, k) = MinDistance(data, centers, p)
        /\ \A k2 \in DOMAIN centers :
              dist_matrix(data, centers, p, k2) = MinDistance(data, centers, p)
                  => k <= k2

\* np.bincount(labels, minlength = K)
bincount(lbls, k) ==
    [c \in 1..k |-> Cardinality({p \in DOMAIN lbls : lbls[p] = c})]

\* np.where(n_samples_in_cluster == 0)[0], as a set
EmptyClusters(counts) == {c \in DOMAIN counts : counts[c] = 0}

\* the orders random.shuffle can give to the elements of a set
RECURSIVE Shuffles(_)
Shuffles(S) ==
    IF S = {} THEN {<< >>}
    ELSE UNION {{<<x>> \o t : t \in Shuffles(S \ {x})} : x \in S}

\* np.argsort(-a) restricted to the indices in rest: every order of the
\* indices by descending value (the default sort is not stable, so equal
\* values may come in any order)
RECURSIVE ArgsortDescending(_, _)
ArgsortDescending(a, rest) ==
    IF rest = {} THEN {<< >>}
    ELSE LET top == {j \in rest : \A j2 \in rest : a[j] >= a[j2]}
         IN  UNION {{<<j>> \o t : t \in ArgsortDescending(a, rest \ {j})} :
                    j \in top}

\* variant: the loop also passes over the points of clusters counted as 2
RECURSIVE SkipSingletonsAndPairs(_, _, _, _)
SkipSingletonsAndPairs(c, order, lbls, counts) ==
    IF c > Len(order) THEN c
    ELSE IF counts[lbls[order[c]]] \in {1, 2}
         THEN SkipSingletonsAndPairs(c + 1, order, lbls, counts)
         ELSE c

\* the while loop of lines 275-276: the first position at or after c whose
\* point lies in a cluster that n_samples_in_cluster does not count as 1;
\* Len + 1 when the loop runs past the end of the array
RECURSIVE SkipSingletons(_, _, _, _)
SkipSingletons(c, order, lbls, counts) ==
    IF c > Len(order) THEN c
    ELSE IF counts[lbls[order[c]]] = 1
         THEN SkipSingletons(c + 1, order, lbls, counts)
         ELSE c

\* variant: the center overwritten is the one of the cluster the point is
\* taken from
ReseedStepMovesDonor(c, cluster_idx, order, data, centers, lbls, counts) ==
    LET point == order[c]
        centers2 == [centers EXCEPT ![lbls[point]] = data[point]]
        lbls2 == [lbls EXCEPT ![point] = cluster_idx]
        counts2 == [counts EXCEPT ![lbls2[order[c]]] = @ - 1]
        counts3 == [counts2 EXCEPT ![cluster_idx] = @ + 1]
    IN  [centers |-> centers2, labels |-> lbls2, counts |-> counts3]

\* lines 279-283 on the point at position c: the center and the label are
\* written first, then the count of labels[point] is read, and labels[point]
\* is by then the cluster being reseeded
ReseedStep(c, cluster_idx, order, data, centers, lbls, counts) ==
    LET point == order[c]
        centers2 == [centers EXCEPT ![cluster_idx] = data[point]]
        lbls2 == [lbls EXCEPT ![point] = cluster_idx]
        counts2 == [counts EXCEPT ![lbls2[order[c]]] = @ - 1]
        counts3 == [counts2 EXCEPT ![cluster_idx] = @ + 1]
    IN  [centers |-> centers2, labels |-> lbls2, counts |-> counts3]

RepairInit ==
    /\ TrainIdle /\ BatchesIdle /\ ForwardIdle
    /\ pc = "fec_call"
    /\ batch_size = 1
    /\ \E n \in {NumClusters - 1, NumClusters} :
          dataset = [p \in 1..n |-> p - 1]
    /\ param_centers \in [1..NumClusters -> 0..(NumClusters - 1)]
    /\ \A a, b \in 1..NumClusters :
          a < b => param_centers[a] <= param_centers[b]
    /\ cluster_centers = None
    /\ labels = << >>
    /\ n_samples_in_cluster = << >>
    /\ points_by_min_cluster_distance = << >>
    /\ cursor = 0
    /\ empty_cluster_idxs = << >>
    /\ initial_empty = {}
    /\ reseed = None
    /\ warned = FALSE
    /\ centers_before = None

\* lines 248-273: hard assignment in a shuffled visiting order, the count,
\* the empty clusters, and (when there is one) the sort and the shuffle
FecAssign ==
    /\ pc = "fec_call"
    /\ cluster_centers' = param_centers
    /\ centers_before' = param_centers
    /\ labels' = [p \in DOMAIN dataset |-> ArgMin(dataset, param_centers, p)]
    /\ n_samples_in_cluster' = bincount(labels', Len(param_centers))
    /\ initial_empty' = EmptyClusters(n_samples_in_cluster')
    /\ IF initial_empty' = {}
       THEN /\ pc' = "fec_returned"
            /\ points_by_min_cluster_distance' = << >>
            /\ empty_cluster_idxs' = << >>
            /\ cursor' = 0
       ELSE /\ pc' = "fec_loop"
            /\ \E index \in Perms(Len(dataset)) :
                  LET min_cluster_distances ==
                          [j \in DOMAIN dataset |->
                              MinDistance(dataset, param_centers, index[j])]
                  IN  points_by_min_cluster_distance' \in
                          ArgsortDescending(min_cluster_distances,
                                            DOMAIN dataset)
            /\ empty_cluster_idxs' \in Shuffles(initial_empty')
            /\ cursor' = 1
    /\ UNCHANGED <<config, raised, train_locals, batches_vars, forward_vars,
                   dataset, param_centers, reseed, warned>>

\* one iteration of the for loop of lines 274-284
FecReseed ==
    /\ pc = "fec_loop"
    /\ empty_cluster_idxs # << >>
    /\ LET cluster_idx == Head(empty_cluster_idxs)
           c == SkipSingletons(cursor, points_by_min_cluster_distance, labels,
                               n_samples_in_cluster)
       IN  IF c > Len(points_by_min_cluster_distance)
           THEN \* points_by_min_cluster_distance[i] is out of bounds
                /\ pc' = "raised"
                /\ raised' = "IndexError"
                /\ cursor' = c
                \* on the cpu the local array shares the parameter's memory,
                \* on another device it is a copy
                /\ param_centers' \in {param_centers, cluster_centers}
                /\ UNCHANGED <<cluster_centers, labels, n_samples_in_cluster,
                               empty_cluster_idxs, reseed>>
           ELSE LET point == points_by_min_cluster_distance[c]
                    r == ReseedStep(c, cluster_idx,
                                    points_by_min_cluster_distance, dataset,
                                    cluster_centers, labels,
                                    n_samples_in_cluster)
                    members == bincount(labels, Len(cluster_centers))
                IN  /\ cluster_centers' = r.centers
                    /\ labels' = r.labels
                    /\ n_samples_in_cluster' = r.counts
                    /\ cursor' = c + 1
                    /\ empty_cluster_idxs' = Tail(empty_cluster_idxs)
                    /\ reseed' =
                         [point |-> point, from |-> labels[point],
                          to |-> cluster_idx,
                          from_members |-> members[labels[point]],
                          alternative |->
                             \E c2 \in (c + 1)..Len(points_by_min_cluster_distance) :
                                members[labels[points_by_min_cluster_distance[c2]]] >= 2,
                          farthest |->
                             \A c2 \in c..Len(points_by_min_cluster_distance) :
                                LET q == points_by_min_cluster_distance[c2]
                                IN  n_samples_in_cluster[labels[q]] # 1 =>
                                       MinDistance(dataset, centers_before, q)
                                          <= MinDistance(dataset, centers_before, point)]
                    /\ UNCHANGED <<pc, raised, param_centers>>
    /\ UNCHANGED <<config, train_locals, batches_vars, forward_vars, dataset,
                   points_by_min_cluster_distance, initial_empty, warned,
                   centers_before>>

\* variant: a cluster still empty after the loop is an error, raised
\* before the write-back
FecFinishRaises ==
    /\ pc = "fec_loop"
    /\ empty_cluster_idxs = << >>
    /\ n_samples_in_cluster' = bincount(labels, Len(cluster_centers))
    /\ warned' = (EmptyClusters(n_samples_in_cluster') # {})
    /\ IF warned'
       THEN pc' = "raised" /\ raised' = "RuntimeError"
                           /\ param_centers' = param_centers
       ELSE pc' = "fec_returned" /\ raised' = raised
                                 /\ param_centers' = cluster_centers
    /\ UNCHANGED <<config, train_locals, batches_vars, forward_vars,
                   dataset, cluster_centers, labels,
                   points_by_min_cluster_distance, cursor, empty_cluster_idxs,
                   initial_empty, reseed, centers_before>>

\* lines 286-291: the recount, the diagnostic, the write-back
FecFinish ==
    /\ pc = "fec_loop"
    /\ empty_cluster_idxs = << >>
    /\ n_samples_in_cluster' = bincount(labels, Len(cluster_centers))
    /\ warned' = (EmptyClusters(n_samples_in_cluster') # {})
    /\ param_centers' = cluster_centers
    /\ pc' = "fec_returned"
    /\ UNCHANGED <<config, raised, train_locals, batches_vars, forward_vars,
                   dataset, cluster_centers, labels,
                   points_by_min_cluster_distance, cursor, empty_cluster_idxs,
                   initial_empty, reseed, centers_before>>

\* train_step, line 327: find_empty_clusters has returned, train_step
\* returns the losses to the loop
FecReturn ==
    /\ pc = "fec_returned"
    /\ pc' = "step_returned"
    /\ UNCHANGED <<config, raised, train_locals, batches_vars, forward_vars,
                   repair_vars>>

NextRepair ==
    \/ FecAssign
    \/ FecReseed
    \/ FecFinish
    \/ FecReturn

SpecRepair == RepairInit /\ [][NextRepair]_vars

(* ============================ train() ================================== *)

\* the supervised list of MatrixSCCLTrainer: construct_batches over the
\* num_pairs concatenated vectors
BuildSupervisedList(build) ==
    LET r == construct_batches(IdPerm(num_pairs), batch_size, IdPerm(num_pairs),
                               IdPerm(SuffixLen(num_pairs, batch_size)))
    IN  [ok |-> r.ok,
         loader |-> [kind |-> "list", build |-> build, next |-> 1,
                     len |-> Len(r.batches)]]

\* the task_type train_step passes to the model (SCCLvTrainer passes
\* "virtual" or "explicit" after args.augtype; SCCLBert knows both)
StepTaskType(t) == IF t = "DeepSCCLTrainer" THEN "explicit" ELSE "virtual"

\* the value of the local loss before any loss term is added: unbound in
\* SCCLvTrainer and MatrixDECTrainer, the float 0.0 in the other two
InitialLoss(t) ==
    IF t \in {"MatrixSCCLTrainer", "DeepSCCLTrainer"} THEN "float" ELSE "unbound"

\* variant: the contrastive logits are computed only when the model has a
\* contrast head
LossComputationSkipsHead(t, tc, head, obj) ==
    LET fwd == ForwardResult(ModelOf(t), StepTaskType(t))
    IN  IF fwd.raised # "none"
        THEN [raised |-> fwd.raised, loss |-> InitialLoss(t)]
        ELSE [raised |-> "none",
              loss |-> IF (tc /\ head) \/ obj = "SCCL"
                       THEN "tensor" ELSE InitialLoss(t)]

\* train_step from the forward pass to the last loss term: tc is the
\* trainer's include_contrastive_loss, head the model's
LossComputation(t, tc, head, obj) ==
    LET fwd == ForwardResult(ModelOf(t), StepTaskType(t))
        cl  == ContrastLogitsResult(ModelOf(t), head)
    IN  IF fwd.raised # "none"
        THEN [raised |-> fwd.raised, loss |-> InitialLoss(t)]
        ELSE IF tc /\ cl.raised # "none"
             THEN [raised |-> cl.raised, loss |-> InitialLoss(t)]
             ELSE [raised |-> "none",
                   loss |-> IF tc \/ obj = "SCCL"
                            THEN "tensor" ELSE InitialLoss(t)]

\* variant: the float 0.0 is wrapped in a tensor, so backward() passes
BackwardResultAcceptsFloat(l) ==
    CASE l = "tensor" -> "none"
      [] l = "float" -> "none"
      [] l = "unbound" -> "UnboundLocalError"

\* loss.backward() on a tensor, on the float 0.0, on an unbound name
BackwardResult(l) ==
    CASE l = "tensor" -> "none"
      [] l = "float" -> "AttributeError"
      [] l = "unbound" -> "UnboundLocalError"

\* variant: find_empty_clusters is called between loss.backward() and
\* optimizer.step()
NextPhaseRepairsBeforeUpdate(p, it) ==
    CASE p = "step" -> "backward"
      [] p = "backward" ->
           IF trainer # "SCCLvTrainer" /\ RepairSelected(it)
           THEN "repair" ELSE "optimizer"
      [] p = "repair" -> "optimizer"
      [] p = "optimizer" -> AfterStep(it)

\* the statement order of train_step after the loss: backward, optimizer
\* step and zero_grad, then find_empty_clusters when new_batch is set, then
\* back in train()
NextPhase(p, it) ==
    CASE p = "step" -> "backward"
      [] p = "backward" -> "optimizer"
      [] p = "optimizer" ->
           IF trainer # "SCCLvTrainer" /\ RepairSelected(it)
           THEN "repair" ELSE AfterStep(it)
      [] p = "repair" -> AfterStep(it)

\* how a call of find_empty_clusters can end: no cluster was empty, every
\* empty cluster was reseeded, a cluster is still empty (diagnostic only),
\* or the cursor ran past the last point
RepairOutcomes == {"no_empty", "reseeded", "still_empty", "IndexError"}

\* self.dataset, stored by the constructor
SelfDataset == <<"dataset">>

\* the embeddings of the dataset under the parameters after `version`
\* optimizer steps: model(points, task_type="evaluate") returns the points
\* themselves only in an SCCLMatrix without linear transformation
EvaluateSnapshot(cls, lt, version) ==
    IF cls = "SCCLMatrix" /\ ~lt THEN SelfDataset ELSE <<"embeddings", version>>

\* the number of pairs in batch k of a DataLoader over m pairs (drop_last is
\* False: the last batch holds what is left)
DataLoaderBatchLen(m, b, k) == IF k * b <= m THEN b ELSE m - (k - 1) * b

\* train() up to the loop: the pre-training evaluation, the early-stopping
\* locals, the supervised stream
TrainBegin ==
    /\ pc = "ready"
    /\ i' = 0
    /\ prev_labels' = None
    /\ patience_counter' = 0
    /\ IF HasEarlyStopping(trainer)
       THEN \E s \in Snapshots :
               /\ all_pred' = s
               /\ last_eval' = [value |-> s, iter |-> -1, steps |-> steps]
       ELSE all_pred' = None /\ last_eval' = last_eval
    /\ CASE trainer = "MatrixSCCLTrainer" ->
              LET b == BuildSupervisedList(1)
              IN  IF b.ok
                  THEN /\ supervised_cl_batch_loader' = b.loader
                       /\ pc' = "fetch"
                       /\ raised' = raised
                  ELSE /\ supervised_cl_batch_loader' = NoLoader
                       /\ pc' = "raised"
                       /\ raised' = "AssertionError"
         [] trainer = "DeepSCCLTrainer" ->
              /\ supervised_cl_batch_loader' =
                     [kind |-> "loader", build |-> 0, next |-> 0,
                      len |-> DataLoaderLen(num_pairs, batch_size)]
              /\ pc' = "fetch"
              /\ raised' = raised
         [] OTHER ->
              /\ supervised_cl_batch_loader' = NoLoader
              /\ pc' = "fetch"
              /\ raised' = raised
    /\ UNCHANGED <<config, not_train_vars,
                   evaluated_at, train_result,
                   train_loader_iter, batch, new_batch,
                   supervised_cl_batch, sup_taken, steps, repaired_at,
                   last_snap, same_run, compared,
                   loss, phases, restarted_at, repair_read, repair_outcome>>

\* the try/except around next(train_loader_iter)
FetchBatch ==
    /\ pc = "fetch"
    /\ LET r == NextBatch(train_loader_iter, loader_len)
           sets_flag == trainer \in {"MatrixDECTrainer", "MatrixSCCLTrainer"}
       IN  /\ train_loader_iter' = r.iter
           /\ batch' = r.batch
           /\ new_batch' = IF sets_flag THEN r.restarted ELSE new_batch
           /\ restarted_at' = IF sets_flag /\ r.restarted /\ r.ok
                              THEN restarted_at \cup {i} ELSE restarted_at
           /\ IF r.ok
              THEN /\ pc' = IF HasSupervised(trainer) THEN "fetch_sup" ELSE "step"
                   /\ raised' = raised
              ELSE /\ pc' = "raised"
                   /\ raised' = "StopIteration"
    /\ sup_taken' = FALSE
    /\ phases' = <<"fetch">>
    /\ loss' = "unbound"
    /\ repair_outcome' = "none"
    /\ UNCHANGED <<config, not_train_vars,
                   evaluated_at, last_eval, train_result,
                   i, supervised_cl_batch_loader, supervised_cl_batch,
                   all_pred, prev_labels, patience_counter, steps, repaired_at,
                   last_snap, same_run, compared, repair_read>>

\* MatrixSCCLTrainer.train, lines 594-598: an empty list is rebuilt and
\* supervised_cl_batch keeps its value; otherwise the head of the list is
\* taken.  DeepSCCLTrainer.train, lines 808-812: next() on the stream, and on
\* any exception (the first call is made on the DataLoader itself, later
\* ones on an exhausted iterator) a fresh iterator and its first batch.
\* A supervised batch is <<build, index>>.
NextSupervised(t, loader, current) ==
    IF t = "MatrixSCCLTrainer"
    THEN IF loader.next > loader.len
         THEN LET b == BuildSupervisedList(loader.build + 1)
              IN  [ok |-> b.ok, loader |-> b.loader, batch |-> current,
                   taken |-> FALSE]
         ELSE [ok |-> TRUE,
               loader |-> [loader EXCEPT !.next = loader.next + 1],
               batch |-> <<loader.build, loader.next>>, taken |-> TRUE]
    ELSE IF loader.kind = "iter" /\ loader.next <= loader.len
         THEN [ok |-> TRUE,
               loader |-> [loader EXCEPT !.next = loader.next + 1],
               batch |-> <<loader.build, loader.next>>, taken |-> TRUE]
         ELSE [ok |-> TRUE,
               loader |-> [kind |-> "iter", build |-> loader.build + 1,
                           next |-> 2,
                           len |-> DataLoaderLen(num_pairs, batch_size)],
               batch |-> <<loader.build + 1, 1>>, taken |-> TRUE]

\* the supervised batch of this iteration (MatrixSCCLTrainer, DeepSCCLTrainer);
\* line 602 reads supervised_cl_batch, which must be bound
FetchSupervised ==
    /\ pc = "fetch_sup"
    /\ LET r == NextSupervised(trainer, supervised_cl_batch_loader,
                               supervised_cl_batch)
       IN  /\ supervised_cl_batch_loader' = r.loader
           /\ supervised_cl_batch' = r.batch
           /\ sup_taken' = r.taken
           /\ IF ~r.ok
              THEN pc' = "raised" /\ raised' = "AssertionError"
              ELSE IF r.batch = Unbound
                   THEN pc' = "raised" /\ raised' = "UnboundLocalError"
                   ELSE pc' = "step" /\ raised' = raised
    /\ UNCHANGED <<config, not_train_vars,
                   evaluated_at, last_eval, train_result,
                   i, train_loader_iter, batch, new_batch,
                   all_pred, prev_labels, patience_counter, steps, repaired_at,
                   last_snap, same_run, compared,
                   loss, phases, restarted_at, repair_read, repair_outcome>>

\* train_step up to the line before loss.backward(): the forward pass, the
\* contrastive logits and losses, the clustering loss
TrainStep ==
    /\ pc = "step"
    /\ LET r == LossComputation(trainer, trainer_contrastive,
                                include_contrastive_loss, objective)
       IN  /\ loss' = r.loss
           /\ IF r.raised # "none"
              THEN pc' = "raised" /\ raised' = r.raised
              ELSE pc' = NextPhase("step", i) /\ raised' = raised
    /\ phases' = Append(phases, "loss")
    /\ UNCHANGED <<config, not_train_vars,
                   evaluated_at, last_eval, train_result,
                   i, train_loader_iter, batch, new_batch,
                   supervised_cl_batch_loader, supervised_cl_batch, sup_taken,
                   all_pred, prev_labels, patience_counter, steps, repaired_at,
                   last_snap, same_run, compared,
                   restarted_at, repair_read, repair_outcome>>

\* loss.backward()
Backward ==
    /\ pc = "backward"
    /\ IF BackwardResult(loss) # "none"
       THEN /\ pc' = "raised"
            /\ raised' = BackwardResult(loss)
            /\ phases' = phases
       ELSE /\ pc' = NextPhase("backward", i)
            /\ raised' = raised
            /\ phases' = Append(phases, "backward")
    /\ UNCHANGED <<config, not_train_vars,
                   evaluated_at, last_eval, train_result,
                   i, loss, train_loader_iter, batch, new_batch,
                   supervised_cl_batch_loader, supervised_cl_batch, sup_taken,
                   all_pred, prev_labels, patience_counter, steps, repaired_at,
                   last_snap, same_run, compared,
                   restarted_at, repair_read, repair_outcome>>

\* self.optimizer.step(); self.optimizer.zero_grad(): one more update of
\* the parameters
OptimizerStep ==
    /\ pc = "optimizer"
    /\ steps' = steps + 1
    /\ phases' = phases \o <<"optimizer_step", "zero_grad">>
    /\ pc' = NextPhase("optimizer", i)
    /\ i' = IF pc' \in {"fetch", "MAX_ITER_REACHED"} THEN NextI(i) ELSE i
    /\ train_result' = ResultAt(pc', all_pred, prev_labels)
    /\ UNCHANGED <<config, not_train_vars,
                   evaluated_at, last_eval,
                   raised, loss, train_loader_iter, batch, new_batch,
                   supervised_cl_batch_loader, supervised_cl_batch, sup_taken,
                   all_pred, prev_labels, patience_counter, repaired_at,
                   last_snap, same_run, compared,
                   restarted_at, repair_read, repair_outcome>>

\* if new_batch: self.find_empty_clusters(iter=i), with the ways the call
\* can end
Repair ==
    /\ pc = "repair"
    /\ repaired_at' = repaired_at \cup {i}
    /\ repair_read' = SelfDataset
    /\ phases' = Append(phases, "repair")
    /\ \E out \in RepairOutcomes :
          /\ repair_outcome' = out
          /\ IF out = "IndexError"
             THEN pc' = "raised" /\ raised' = "IndexError"
             ELSE pc' = NextPhase("repair", i) /\ raised' = raised
    /\ i' = IF pc' \in {"fetch", "MAX_ITER_REACHED"} THEN NextI(i) ELSE i
    /\ train_result' = ResultAt(pc', all_pred, prev_labels)
    /\ UNCHANGED <<config, not_train_vars,
                   evaluated_at, last_eval,
                   loss, train_loader_iter, batch, new_batch,
                   supervised_cl_batch_loader, supervised_cl_batch, sup_taken,
                   all_pred, prev_labels, patience_counter, steps,
                   last_snap, same_run, compared, restarted_at>>

\* the evaluation checkpoint of SCCLvTrainer.train: evaluate_embedding
\* computes the predictions (all_pred, line 177) and returns None; nothing
\* is compared and nothing is kept
EvalSCCLv ==
    /\ pc = "eval"
    /\ trainer = "SCCLvTrainer"
    /\ \E s \in Snapshots :
          /\ last_snap' = s
          /\ same_run' = IF last_snap = s THEN same_run + 1 ELSE 1
    /\ phases' = Append(phases, "eval")
    /\ evaluated_at' = evaluated_at \cup {i}
    /\ pc' = AfterIter(i)
    /\ i' = NextI(i)
    /\ train_result' = ResultAt(pc', all_pred, prev_labels)
    /\ UNCHANGED <<config, not_train_vars,
                   last_eval,
                   raised, loss, train_loader_iter, batch, new_batch,
                   supervised_cl_batch_loader, supervised_cl_batch, sup_taken,
                   all_pred, prev_labels, patience_counter, steps, repaired_at,
                   compared, restarted_at, repair_read, repair_outcome>>

\* the evaluation checkpoint of MatrixDECTrainer / MatrixSCCLTrainer /
\* DeepSCCLTrainer: s is the PredictionSnapshot evaluate_embedding returns
\* for the current parameters
EvalCheckpoint ==
    /\ pc = "eval"
    /\ HasEarlyStopping(trainer)
    /\ phases' = phases \o <<"eval", "patience">>
    /\ evaluated_at' = evaluated_at \cup {i}
    /\ \E s \in Snapshots :
          /\ all_pred' = s
          /\ last_eval' = [value |-> s, iter |-> i, steps |-> steps]
          /\ last_snap' = s
          /\ same_run' = IF last_snap = s THEN same_run + 1 ELSE 1
          /\ IF prev_labels = None
             THEN /\ prev_labels' = RetainedLabels(prev_labels, s, FALSE)
                  /\ patience_counter' = patience_counter
                  /\ compared' = None
                  /\ pc' = AfterIter(i)
                  /\ i' = NextI(i)
             ELSE LET c == PatienceUpdate(patience_counter, Agreement(s, prev_labels))
                  IN  /\ patience_counter' = c
                      /\ compared' = <<prev_labels, s, patience_counter>>
                      /\ IF Agreement(s, prev_labels) /\ PatienceExhausted(c)
                         THEN /\ pc' = "CONVERGED"
                              /\ prev_labels' = RetainedLabels(prev_labels, s, TRUE)
                              /\ i' = i
                         ELSE /\ prev_labels' = RetainedLabels(prev_labels, s, FALSE)
                              /\ pc' = AfterIter(i)
                              /\ i' = NextI(i)
    /\ train_result' = ResultAt(pc', all_pred', prev_labels')
    /\ UNCHANGED <<config, not_train_vars,
                   raised, loss, train_loader_iter, batch, new_batch,
                   supervised_cl_batch_loader, supervised_cl_batch, sup_taken,
                   steps, repaired_at, restarted_at, repair_read,
                   repair_outcome>>

Next ==
    \/ TrainBegin
    \/ FetchBatch
    \/ FetchSupervised
    \/ TrainStep
    \/ Backward
    \/ OptimizerStep
    \/ Repair
    \/ EvalSCCLv
    \/ EvalCheckpoint

Spec == Init /\ [][Next]_vars

(* ===================== properties of train() =========================== *)

\* C1 (as amended): in MatrixDECTrainer, MatrixSCCLTrainer and DeepSCCLTrainer,
\* once the snapshots of patience + 1 consecutive checkpoints are identical
\* (patience consecutive comparisons agree) the loop has halted, at the last
\* of those checkpoints: i is that checkpoint, exactly i + 1 train steps were
\* made and the counter equals patience.
C1_HaltsAfterPatienceAgreements ==
    HasEarlyStopping(trainer) =>
        /\ same_run >= patience + 1 => pc = "CONVERGED"
        /\ pc = "CONVERGED" =>
              /\ IsCheckpoint(i)
              /\ steps = i + 1
              /\ patience_counter = patience
              /\ all_pred = last_snap

\* C1 witness: a run halted before max_iter by patience + 1 identical snapshots
C1_Witness ==
    /\ trainer = "MatrixDECTrainer"
    /\ pc = "CONVERGED"
    /\ patience = MaxPatience
    /\ same_run = patience + 1
    /\ i < max_iter

\* C1 as stated: identical snapshots at `patience` consecutive checkpoints
\* halt the loop at the last of them (stated for patience >= 2, where
\* "consecutive" has a meaning)
C1_Original ==
    (HasEarlyStopping(trainer) /\ patience >= 2 /\ same_run >= patience)
        => pc = "CONVERGED"

\* C5: at every checkpoint that has a previous snapshot the counter becomes
\* its old value + 1 when adjusted_rand_score(cur, prev) == 1.0 and 0 when
\* it does not, whatever the old value; identical snapshots always agree.
C5_PatienceRule ==
    compared # None =>
        LET prev   == compared[1]
            cur    == compared[2]
            before == compared[3]
        IN  /\ Agreement(cur, prev) => patience_counter = before + 1
            /\ ~Agreement(cur, prev) => patience_counter = 0
            /\ cur = prev => patience_counter = before + 1

\* C5 witness: a counter of 1 was reset to 0 by a disagreeing snapshot
C5_Witness ==
    /\ compared # None
    /\ compared[3] = 1
    /\ ~Agreement(compared[2], compared[1])
    /\ patience_counter = 0

\* C6 (as amended): MatrixDECTrainer, MatrixSCCLTrainer and DeepSCCLTrainer
\* share the early-stopping logic (CONVERGED exactly when the counter
\* reaches patience); SCCLvTrainer keeps neither prev_labels nor a counter,
\* never converges and always runs all of its iterations.
C6_ThreeTrainersShareEarlyStopping ==
    /\ HasEarlyStopping(trainer) =>
          (pc = "CONVERGED" <=> patience_counter = patience)
    /\ trainer = "SCCLvTrainer" =>
          /\ pc # "CONVERGED"
          /\ prev_labels = None
          /\ patience_counter = 0
          /\ all_pred = None

\* C6 witness: SCCLvTrainer ended at max_iter although more than patience
\* consecutive checkpoints produced the same snapshot
C6_Witness ==
    /\ trainer = "SCCLvTrainer"
    /\ pc = "MAX_ITER_REACHED"
    /\ same_run > patience + 1

\* C6 as stated: every one of the four trainers is CONVERGED once patience
\* consecutive comparisons agreed
C6_Original ==
    \A t \in Trainers :
        (trainer = t /\ same_run >= patience + 1) => pc = "CONVERGED"

\* C7 (as amended): a run that ends in MAX_ITER_REACHED made exactly
\* max_iter + 1 train steps (i = 0 .. max_iter).
C7_MaxIterPlusOneSteps ==
    pc = "MAX_ITER_REACHED" => (steps = max_iter + 1 /\ i = max_iter)

\* C7 witness: a run that reached MAX_ITER_REACHED
C7_Witness ==
    pc = "MAX_ITER_REACHED" /\ max_iter = MaxIter /\ steps = MaxIter + 1

\* C7 as stated: a run that ends in MAX_ITER_REACHED made exactly max_iter
\* train steps
C7_Original ==
    pc = "MAX_ITER_REACHED" => steps = max_iter

\* C8 as stated: in MatrixSCCLTrainer.train every train step uses a batch
\* taken from the supervised list in that same iteration; in the iteration
\* that rebuilds the list this is the first batch of the rebuilt list.
C8_SupervisedBatchTakenEachIteration ==
    (trainer = "MatrixSCCLTrainer" /\ pc = "step") =>
        /\ sup_taken
        /\ supervised_cl_batch[1] = supervised_cl_batch_loader.build

\* C9: with a loader of at least one batch, iteration i trains on batch
\* (i mod len) of pass (i div len): a fresh iterator is made at i = 0 and
\* after every len batches, its first batch is used in that same iteration,
\* and the fetch never raises.
C9_LoaderCycles ==
    loader_len >= 1 =>
        /\ raised # "StopIteration"
        /\ pc \in {"fetch_sup", "step", "backward", "optimizer", "repair",
                  "eval"} =>
              batch = <<(i \div loader_len) + 1, (i % loader_len) + 1>>
        /\ (pc \in {"fetch_sup", "step"}
              /\ trainer \in {"MatrixDECTrainer", "MatrixSCCLTrainer"}) =>
              (new_batch <=> i % loader_len = 0)

\* C9 witness: the second pass has started, its first batch is about to be
\* trained on
C9_Witness ==
    /\ pc = "step"
    /\ loader_len = MaxLoaderLen
    /\ i = loader_len
    /\ batch = <<2, 1>>

\* C11: with a trainer whose include_contrastive_loss is True on an
\* SCCLMatrix or SCCLBertTransE model built without contrast head, the
\* first train_step ends in the AssertionError of contrast_logits, before
\* loss.backward() and optimizer.step(): no optimizer step and no repair
\* has been made, and training never gets past that step.
C11_MissingHeadFailsBeforeUpdate ==
    (/\ model_class \in {"SCCLMatrix", "SCCLBertTransE"}
     /\ trainer_contrastive
     /\ ~include_contrastive_loss) =>
        /\ pc \in {"ready", "fetch", "fetch_sup", "step", "raised"}
        /\ steps = 0
        /\ repaired_at = {}
        /\ (phases # << >> /\ phases[Len(phases)] = "loss") =>
              /\ pc = "raised"
              /\ raised = "AssertionError"
              /\ loss # "tensor"
              /\ phases = <<"fetch", "loss">>

\* C11 witness: DeepSCCLTrainer's first train_step failed in contrast_logits
C11_Witness ==
    /\ trainer = "DeepSCCLTrainer"
    /\ trainer_contrastive
    /\ ~include_contrastive_loss
    /\ pc = "raised"
    /\ raised = "AssertionError"
    /\ phases = <<"fetch", "loss">>

\* C17 (as stated): in MatrixDECTrainer and MatrixSCCLTrainer every finished
\* iteration after the first whose fetch restarted the exhausted loader
\* (new_batch = True) called find_empty_clusters
C17_RestartTriggersRepair ==
    \A it \in restarted_at : (it > 0 /\ it < i) => it \in repaired_at

\* C18 (as stated): the points a call of find_empty_clusters measures are
\* the embeddings of the dataset under the parameters at the time of the
\* call
C18_RepairReadsCurrentEmbeddings ==
    (phases # << >> /\ phases[Len(phases)] = "repair") =>
        repair_read = EvaluateSnapshot(model_class, linear_transformation, steps)

\* C19 (as stated): every supervised batch that reaches train_step in
\* DeepSCCLTrainer.train holds exactly batch_size pairs
C19_DeepSupervisedBatchesFull ==
    (trainer = "DeepSCCLTrainer" /\ pc = "step") =>
        DataLoaderBatchLen(num_pairs, batch_size, supervised_cl_batch[2])
            = batch_size

\* the order of the phases of one iteration that claim C20 states
C20_Order ==
    <<"fetch", "loss", "backward", "optimizer_step", "zero_grad", "repair",
      "eval", "patience">>

C20_Rank(ph) == CHOOSE k \in 1..Len(C20_Order) : C20_Order[k] = ph

\* C20: in MatrixDECTrainer, MatrixSCCLTrainer and DeepSCCLTrainer the phases
\* of an iteration run in the order fetch, loss, backward, optimizer step,
\* zero_grad, then repair (only when selected), then evaluation (only at a
\* checkpoint), then the patience check; repair and evaluation start only
\* after zero_grad; the loop is left at i = max_iter or, earlier, by the
\* patience break, taken right after the patience check of an iteration
\* whose optimizer step was made.
C20_PhasesSequential ==
    HasEarlyStopping(trainer) =>
        /\ \A k \in 1..Len(phases) :
              /\ phases[k] \in {C20_Order[j] : j \in 1..Len(C20_Order)}
              /\ k <= 5 => phases[k] = C20_Order[k]
              /\ k < Len(phases) => C20_Rank(phases[k]) < C20_Rank(phases[k + 1])
        /\ pc = "repair" =>
              (RepairSelected(i) /\ phases = SubSeq(C20_Order, 1, 5))
        /\ pc = "eval" =>
              (IsCheckpoint(i) /\ Len(phases) >= 5 /\ phases[5] = "zero_grad")
        /\ pc = "CONVERGED" =>
              /\ IsCheckpoint(i)
              /\ phases[Len(phases)] = "patience"
              /\ Len(phases) >= 5 /\ phases[4] = "optimizer_step"
              /\ steps = i + 1
        /\ pc = "MAX_ITER_REACHED" => i = max_iter

\* C20 witness: a run that repaired, evaluated and took the patience break
\* in one iteration before max_iter
C20_Witness ==
    /\ HasEarlyStopping(trainer)
    /\ pc = "CONVERGED"
    /\ i < max_iter
    /\ phases = C20_Order

\* the iterations whose body has run to its end (the halting checkpoint of
\* an early stop included)
IterationDone(it) ==
    it < i \/ (it = i /\ pc \in {"CONVERGED", "MAX_ITER_REACHED"})

\* C21: iteration i runs the in-loop evaluation if and only if
\* print_freq > 0 and (i is a multiple of print_freq or i = max_iter); so
\* with print_freq > 0 iteration 0 and iteration max_iter are checkpoints,
\* and with print_freq <= 0 there is no in-loop evaluation and no early stop
C21_EvaluationCadence ==
    /\ \A it \in evaluated_at :
          /\ it \in 0..max_iter
          /\ print_freq > 0
          /\ (it % print_freq = 0 \/ it = max_iter)
    /\ \A it \in 0..max_iter :
          (/\ IterationDone(it)
           /\ print_freq > 0
           /\ (it % print_freq = 0 \/ it = max_iter)) => it \in evaluated_at
    /\ (print_freq > 0 /\ IterationDone(0)) => 0 \in evaluated_at
    /\ (print_freq > 0 /\ pc = "MAX_ITER_REACHED") => max_iter \in evaluated_at
    /\ print_freq <= 0 => (evaluated_at = {} /\ pc # "CONVERGED")

\* C21: the loop ended after an evaluation at an iteration that is not a
\* multiple of print_freq, and after an iteration without evaluation
C21_Witness ==
    /\ pc = "MAX_ITER_REACHED"
    /\ print_freq > 0
    /\ max_iter % print_freq # 0
    /\ evaluated_at = {0, 2, max_iter}
    /\ 1 \notin evaluated_at

\* the state part of C22: prev_labels is unset until the first in-loop
\* checkpoint (the pre-training snapshot is in all_pred by then), and after
\* a checkpoint that did not halt it is the snapshot of that checkpoint,
\* which is the latest one
C22_Retained ==
    HasEarlyStopping(trainer) =>
        /\ (evaluated_at = {} /\ pc # "ready") =>
               (prev_labels = None /\ all_pred # None /\ last_eval.iter = -1)
        /\ evaluated_at # {} =>
               /\ last_eval.iter \in evaluated_at
               /\ \A it \in evaluated_at : it <= last_eval.iter
               /\ pc # "CONVERGED" => prev_labels = last_eval.value

\* the step part of C22: a checkpoint after the first compares the snapshot
\* of the checkpoint before it with its own, whatever happened to the
\* counter at the checkpoint before
C22_Compares ==
    (pc = "eval" /\ HasEarlyStopping(trainer) /\ pc' # "eval") =>
        IF evaluated_at = {}
        THEN compared' = None
        ELSE /\ compared' # None
             /\ compared'[1] = last_eval.value
             /\ compared'[2] = last_eval'.value
             /\ last_eval'.iter = i

\* C22: after every evaluation checkpoint at which training does not halt,
\* prev_labels is the snapshot computed at that checkpoint (counter
\* incremented or reset), so every comparison is between two consecutive
\* checkpoints; the pre-training evaluation is never used as prev_labels
C22_PrevLabelsRetention == [](C22_Retained) /\ [][C22_Compares]_vars

\* C22: a checkpoint disagreed with the one before (counter reset) and its
\* snapshot was kept as prev_labels
C22_Witness ==
    /\ HasEarlyStopping(trainer)
    /\ pc = "fetch"
    /\ compared # None
    /\ ~Agreement(compared[2], compared[1])
    /\ patience_counter = 0
    /\ prev_labels = compared[2]
    /\ prev_labels = last_eval.value

\* the two trainers of C24, the flag combination without a loss term, the
\* current iteration has entered train_step, the optimizer steps it made
C24_VectorTrainer == trainer \in {"MatrixDECTrainer", "MatrixSCCLTrainer"}
C24_NoLossTerm == ~trainer_contrastive /\ objective # "SCCL"
C24_InStep == Len(phases) >= 2 /\ phases[2] = "loss"
C24_UpdatesInStep ==
    Cardinality({k \in DOMAIN phases : phases[k] = "optimizer_step"})

\* the part of C24 about the combination without a loss term: the step
\* fails at loss.backward(), in the first iteration, before any optimizer
\* step and any repair
C24_FailsBeforeUpdate ==
    (C24_VectorTrainer /\ C24_NoLossTerm /\ C24_InStep) =>
        /\ loss # "tensor"
        /\ pc \in {"backward", "raised"}
        /\ pc = "raised" =>
              raised = IF trainer = "MatrixDECTrainer"
                       THEN "UnboundLocalError" ELSE "AttributeError"
        /\ steps = 0 /\ C24_UpdatesInStep = 0 /\ repaired_at = {}

\* C24 as stated: without a loss term the train step of MatrixDECTrainer /
\* MatrixSCCLTrainer fails before the optimizer step; in the three other
\* flag combinations the step completes with exactly one optimizer step
C24_Original ==
    /\ C24_FailsBeforeUpdate
    /\ (C24_VectorTrainer /\ ~C24_NoLossTerm /\ C24_InStep) =>
          /\ pc # "raised"
          /\ pc \notin {"backward", "optimizer"} => C24_UpdatesInStep = 1

\* C24 (amended): as stated for the combination without a loss term; in
\* the three other combinations, when the model has the contrast head that
\* an enabled contrastive term needs, the loss is a tensor, backward()
\* passes and the step makes exactly one optimizer step, after which only
\* the repair can still fail
C24_LossConfiguration ==
    /\ C24_FailsBeforeUpdate
    /\ (/\ C24_VectorTrainer /\ ~C24_NoLossTerm /\ C24_InStep
        /\ trainer_contrastive => include_contrastive_loss) =>
          /\ loss = "tensor"
          /\ pc = "raised" =>
                (raised = "IndexError" /\ phases[Len(phases)] = "repair")
          /\ pc \notin {"backward", "optimizer"} => C24_UpdatesInStep = 1
          /\ steps >= C24_UpdatesInStep

\* C24: MatrixSCCLTrainer without a loss term failed on the float 0.0
C24_Witness ==
    /\ trainer = "MatrixSCCLTrainer"
    /\ C24_NoLossTerm
    /\ C24_InStep
    /\ loss = "float"
    /\ pc = "raised" /\ raised = "AttributeError"
    /\ steps = 0

\* C25: train() of MatrixDECTrainer / MatrixSCCLTrainer / DeepSCCLTrainer
\* returns the snapshot of the most recent evaluation: with print_freq > 0
\* and no early stop the one computed at i = max_iter after the final train
\* step, on early stop the one of the halting checkpoint, with
\* print_freq <= 0 the pre-training one, computed before any train step
C25_ReturnsLatestSnapshot ==
    /\ train_result.returned <=> pc \in {"CONVERGED", "MAX_ITER_REACHED"}
    /\ (HasEarlyStopping(trainer) /\ train_result.returned) =>
          /\ train_result.value = last_eval.value
          /\ (print_freq > 0 /\ pc = "MAX_ITER_REACHED") =>
                /\ last_eval.iter = max_iter
                /\ last_eval.steps = max_iter + 1
                /\ steps = max_iter + 1
          /\ pc = "CONVERGED" =>
                /\ last_eval.iter = i
                /\ i \in evaluated_at
                /\ last_eval.steps = steps
          /\ print_freq <= 0 =>
                /\ pc = "MAX_ITER_REACHED"
                /\ last_eval.iter = -1
                /\ last_eval.steps = 0
                /\ steps = max_iter + 1

\* C25: an early stop before max_iter returned the snapshot of the halting
\* checkpoint, whose label names differ from those of the checkpoint before
C25_Witness ==
    /\ HasEarlyStopping(trainer)
    /\ pc = "CONVERGED"
    /\ i < max_iter
    /\ train_result.returned
    /\ train_result.value = last_eval.value
    /\ train_result.value # prev_labels

(* ================= properties of construct_batches ===================== *)

\* C4 as stated: construct_batches on M vectors with batch size B >= 1
\* returns ceil(M / B) batches of exactly B vectors each, every input vector
\* is in some batch, and the call never fails, for every M >= 0.
C4_BatchesCoverInput ==
    pc # "call" =>
        LET m == Len(vectors)
        IN  /\ pc = "returned"
            /\ Len(batches) = (m + batch_size - 1) \div batch_size
            /\ \A k \in 1..Len(batches) : Len(batches[k]) = batch_size
            /\ \A v \in 1..m : \E k \in 1..Len(batches) :
                  \E j \in 1..Len(batches[k]) : batches[k][j] = vectors[v]

(* ====================== properties of forward() ======================== *)

\* the modes claim C10 lists for each model
C10_Supported(cls) ==
    CASE cls = "SCCLBert" -> {"evaluate", "virtual", "explicit"}
      [] cls = "SCCLMatrix" -> {"evaluate", "virtual"}
      [] cls = "SCCLBertTransE" -> {"evaluate", "explicit"}

\* C10: forward with a task_type outside the model's supported set raises
\* and returns no embeddings; with a supported one it returns embeddings.
C10_UnsupportedModeRaises ==
    (forward_out # None /\ forward_out.op = "forward") =>
        IF task_type \in C10_Supported(model_class)
        THEN forward_out.raised = "none" /\ forward_out.embeddings >= 1
        ELSE forward_out.raised # "none" /\ forward_out.embeddings = 0

\* C10 witness: SCCLBertTransE was called with "virtual", a mode of the
\* other two models, and raised
C10_Witness ==
    /\ model_class = "SCCLBertTransE"
    /\ task_type = "virtual"
    /\ forward_out # None
    /\ forward_out.raised = "NotImplementedError"

\* C2 (as stated): a call that found an empty cluster, on a dataset of at
\* least K distinct points, returns with every cluster holding at least one
\* point of the hard-assignment labels
C2_RepairLeavesNoEmptyCluster ==
    (/\ pc = "fec_returned"
     /\ initial_empty # {}
     /\ Len(dataset) >= Len(param_centers))
        => /\ \A k \in DOMAIN param_centers : \E p \in DOMAIN labels : labels[p] = k
           /\ ~warned

\* C3 (as stated): no reseeding step takes the only point still labelled
\* with its cluster while a later point of the order lies in a cluster of
\* two or more
C3_NeverTakesLastMember ==
    (reseed # None /\ reseed.from_members = 1) => ~reseed.alternative

(* ================ properties of find_empty_clusters ==================== *)

\* C12: when clusters are still empty after the repair loop, the call has
\* only set the diagnostic: it raised nothing, it wrote the local center
\* matrix back to the parameter, it returned, and train_step returns to
\* the loop.
C12_PersistentEmptyOnlyWarns ==
    warned =>
        /\ pc \in {"fec_returned", "step_returned"}
        /\ raised = "none"
        /\ param_centers = cluster_centers
        /\ EmptyClusters(bincount(labels, Len(param_centers))) # {}

\* C12 witness: train_step returned after a repair that left a cluster empty
C12_Witness ==
    /\ pc = "step_returned"
    /\ warned
    /\ Len(dataset) >= Len(param_centers)

\* C13: a call that finds no empty cluster leaves the cluster_centers
\* parameter as it was; a call that repairs leaves the center of every
\* cluster that was not empty as it was, in the local matrix and in the
\* parameter.
C13_OnlyEmptyCentersMove ==
    centers_before # None =>
        /\ initial_empty = {} =>
              (param_centers = centers_before /\ cluster_centers = centers_before)
        /\ \A k \in DOMAIN centers_before :
              k \notin initial_empty =>
                 /\ param_centers[k] = centers_before[k]
                 /\ cluster_centers[k] = centers_before[k]

\* C13 witness: a repairing call returned, it moved a center, and a cluster
\* that was not empty exists
C13_Witness ==
    /\ pc = "step_returned"
    /\ initial_empty # {}
    /\ param_centers # centers_before
    /\ Cardinality(initial_empty) < Len(param_centers) - 1

\* C15 (as stated): the point taken by a reseeding step has the greatest
\* distance to its nearest center among the points at or after the cursor
\* that the singleton guard lets through
C15_FarthestFirst ==
    reseed # None => reseed.farthest

\* C16 (as stated): after every reseeding step n_samples_in_cluster[k] is
\* the number of points labelled k, for every cluster k
C16_CountsMatchLabels ==
    (pc = "fec_loop" /\ reseed # None) =>
        n_samples_in_cluster = bincount(labels, Len(cluster_centers))

\* C23: with at least as many points as clusters (N >= K) the cursor of
\* find_empty_clusters never indexes past the last element of the sorted
\* point list, whatever the assignment, the point order and the order of
\* the empty clusters; the skip loop runs out of bounds only when N < K
C23_CursorInBounds ==
    /\ raised = "IndexError" => Len(dataset) < Len(param_centers)
    /\ (/\ Len(dataset) >= Len(param_centers)
        /\ pc = "fec_loop"
        /\ empty_cluster_idxs # << >>) =>
          SkipSingletons(cursor, points_by_min_cluster_distance, labels,
                         n_samples_in_cluster)
             <= Len(points_by_min_cluster_distance)
    /\ (Len(dataset) >= Len(param_centers) /\ pc # "fec_call") =>
          cursor <= Len(points_by_min_cluster_distance) + 1

\* C23: N >= K, two clusters were empty, the loop passed over the point of
\* a singleton cluster and the call returned
C23_Witness ==
    /\ Len(dataset) >= Len(param_centers)
    /\ pc = "fec_returned"
    /\ reseed # None
    /\ Cardinality(initial_empty) >= 2
    /\ cursor > Cardinality(initial_empty) + 1

====
